---- MODULE Spec2Model ----
(***************************************************************************)
(* Two leaf programs of deck.gl:                                           *)
(*   website/src/doc-demos/mesh-layers.js  -- registers two layer demos    *)
(*   bindings/pydeck/examples/07 - Binary Transport.ipynb -- a notebook    *)
(*     that reshapes a table and shows it with binary transport            *)
(* The two run independently; the model interleaves their statements.      *)
(***************************************************************************)
EXTENDS Integers, Sequences, FiniteSets, TLC

\* ------------------------------------------------------------------ bounds
\* largest number of rows of social_nodes.csv the model reads
MaxRows == 2

\* ------------------------------------------------------------ value shapes
\* A literal of either language, tagged with its runtime type.
Str(s) == [t |-> "string", v |-> s]
List(q) == [t |-> "list", v |-> q]
Ref(n) == [t |-> "class", v |-> n]
Num(n) == [t |-> "number", v |-> n]
Bool(b) == [t |-> "boolean", v |-> b]
None == [t |-> "None"]
\* a name that is declared but not yet assigned
Undefined == [t |-> "undefined"]

\* ---------------------------------------------------------- mesh-layers.js
\* values '../constants/defaults' may export as DATA_URI
DataUris == {"https://example.org/deck.gl-data/website", "data"}

\* The nested template literal of the tooltip source is delimited by
\* backquotes in the source; they are written as ' here.
TooltipSource == "({object}) => object && '${object.name}\n${object.address}'"

ScenegraphProps(uri) ==
  "{\n    data: '" \o uri \o "/bart-stations.json',\n"
  \o "    pickable: true,\n"
  \o "    scenegraph: 'https://raw.githubusercontent.com/KhronosGroup/glTF-Sample-Models/master/2.0/BoxAnimated/glTF-Binary/BoxAnimated.glb',\n"
  \o "    getPosition: d => d.coordinates,\n"
  \o "    getOrientation: d => [0, Math.random() * 180, 90],\n"
  \o "    _animations: {\n      '*': {speed: 5}\n    },\n"
  \o "    sizeScale: 500,\n"
  \o "    _lighting: 'pbr'\n  }"

SimpleMeshProps(uri) ==
  "{\n    data: '" \o uri \o "/bart-stations.json',\n"
  \o "    pickable: true,\n"
  \o "    mesh: '" \o uri \o "/humanoid_quad.obj',\n"
  \o "    getPosition: d => d.coordinates,\n"
  \o "    getColor: d => [Math.sqrt(d.exits), 140, 0],\n"
  \o "    getOrientation: d => [0, Math.random() * 180, 0],\n"
  \o "    sizeScale: 30\n  }"

\* variant: the loaders are passed as the imported classes, not by name
ScenegraphLayerConfigLoaderClasses(uri) ==
  [Layer |-> Ref("ScenegraphLayer"),
   dependencies |-> List(<<Str("https://unpkg.com/@loaders.gl/gltf@latest/dist/dist.min.js")>>),
   loaders |-> List(<<Ref("GLTFLoader")>>),
   getTooltip |-> Str(TooltipSource),
   props |-> Str(ScenegraphProps(uri))]

ScenegraphLayerConfig(uri) ==
  [Layer |-> Ref("ScenegraphLayer"),
   dependencies |-> List(<<Str("https://unpkg.com/@loaders.gl/gltf@latest/dist/dist.min.js")>>),
   loaders |-> List(<<Str("GLTFLoader")>>),
   getTooltip |-> Str(TooltipSource),
   props |-> Str(ScenegraphProps(uri))]

SimpleMeshLayerConfig(uri) ==
  [Layer |-> Ref("SimpleMeshLayer"),
   dependencies |-> List(<<Str("https://unpkg.com/@loaders.gl/obj@latest/dist/dist.min.js")>>),
   loaders |-> List(<<Str("OBJLoader")>>),
   getTooltip |-> Str(TooltipSource),
   props |-> Str(SimpleMeshProps(uri))]

\* ./layer-demo: the harness keeps the descriptor it is given
makeLayerDemo(config) == [t |-> "component", config |-> config]

VARIABLES pcJs, DATA_URI, registeredLoaders, ScenegraphLayerDemo, SimpleMeshLayerDemo

jsVars == <<pcJs, DATA_URI, registeredLoaders, ScenegraphLayerDemo, SimpleMeshLayerDemo>>

InitJs ==
  /\ pcJs = "registerLoaders"
  /\ DATA_URI \in DataUris
  /\ registeredLoaders = {}
  /\ ScenegraphLayerDemo = Undefined
  /\ SimpleMeshLayerDemo = Undefined

registerLoaders ==
  /\ pcJs = "registerLoaders"
  /\ registeredLoaders' = registeredLoaders \cup {"GLTFLoader", "OBJLoader"}
  /\ pcJs' = "ScenegraphLayerDemo"
  /\ UNCHANGED <<DATA_URI, ScenegraphLayerDemo, SimpleMeshLayerDemo>>

DefineScenegraphLayerDemo ==
  /\ pcJs = "ScenegraphLayerDemo"
  /\ ScenegraphLayerDemo' = makeLayerDemo(ScenegraphLayerConfig(DATA_URI))
  /\ pcJs' = "SimpleMeshLayerDemo"
  /\ UNCHANGED <<DATA_URI, registeredLoaders, SimpleMeshLayerDemo>>

DefineSimpleMeshLayerDemo ==
  /\ pcJs = "SimpleMeshLayerDemo"
  /\ SimpleMeshLayerDemo' = makeLayerDemo(SimpleMeshLayerConfig(DATA_URI))
  /\ pcJs' = "loaded"
  /\ UNCHANGED <<DATA_URI, registeredLoaders, ScenegraphLayerDemo>>

\* ------------------------------------------------- 07 - Binary Transport
\* the two tables of the Usage cell: flat, and the nested form it asks for
FlatTable ==
  <<[x |-> 0, y |-> 1, r |-> 0, g |-> 0, b |-> 0],
    [x |-> 0, y |-> 5, r |-> 255, g |-> 0, b |-> 0],
    [x |-> 5, y |-> 1, r |-> 255, g |-> 255, b |-> 0]>>

NestedTable ==
  <<[position |-> <<0, 1>>, color |-> <<0, 0, 0>>],
    [position |-> <<0, 5>>, color |-> <<255, 0, 0>>],
    [position |-> <<5, 1>>, color |-> <<255, 255, 0>>]>>

\* sample values of the columns of social_nodes.csv
Coords == {0, 1}
Groups == {"a", "b"}
CsvRows == {[x |-> a, y |-> b, z |-> c, group |-> g] :
              a \in Coords, b \in Coords, c \in Coords, g \in Groups}
\* the files NODES_URL may serve: at least one row, columns x, y, z, group
CsvFiles == UNION {[1..n -> CsvRows] : n \in 1..MaxRows}

Range(q) == {q[i] : i \in DOMAIN q}

\* pandas: a table is its column names in order and its rows in order
DataFrame(columns, rows) == [t |-> "DataFrame", columns |-> columns, rows |-> rows]

\* pd.read_csv(NODES_URL)
read_csv(file) == DataFrame(<<"x", "y", "z", "group">>, file)

\* df[name] = series
SetColumn(df, name, series) ==
  DataFrame(IF name \in Range(df.columns) THEN df.columns ELSE Append(df.columns, name),
            [i \in DOMAIN df.rows |->
               [c \in DOMAIN df.rows[i] \cup {name} |->
                  IF c = name THEN series[i] ELSE df.rows[i][c]]])

\* del df[name]
DelColumn(df, name) ==
  DataFrame(SelectSeq(df.columns, LAMBDA c : c # name),
            [i \in DOMAIN df.rows |->
               [c \in DOMAIN df.rows[i] \ {name} |-> df.rows[i][c]]])

\* df[name]
Column(df, name) == [i \in DOMAIN df.rows |-> df.rows[i][name]]

\* variant: x and y change places
PositionOfSwapped(row) == <<row.y, row.x, row.z>>

\* lambda row: [row["x"], row["y"], row["z"]]
PositionOf(row) == <<row.x, row.y, row.z>>

\* nodes.apply(lambda row: ..., axis=1): one value per row, in row order
PositionSeries(df) == [i \in DOMAIN df.rows |-> PositionOf(df.rows[i])]

\* colours assign_random_colors may hand out
Palette == {<<255, 0, 0>>, <<0, 128, 255>>}

\* pdk.data_utils.assign_random_colors: some colour for every distinct value
assign_random_colors(series) == [Range(series) -> Palette]

\* c / 255 keeps numerator and denominator (a float in the notebook)
Div255(c) == [num |-> c, den |-> 255]

\* lambda row: [c / 255 for c in colors.get(row["group"])]
ColorOf(cs, row) == [k \in DOMAIN cs[row.group] |-> Div255(cs[row.group][k])]

\* nodes.apply(lambda row: ..., axis=1): one value per row, in row order
ColorSeries(df, cs) == [i \in DOMAIN df.rows |-> ColorOf(cs, df.rows[i])]

VARIABLES pcNb, csv, nodes, colors

nbVars == <<pcNb, csv, nodes, colors>>

InitNb ==
  /\ pcNb = "import"
  /\ csv \in CsvFiles
  /\ nodes = Undefined
  /\ colors = Undefined

\* cell 1: imports, NODES_URL and the unused generate_graph_data
ImportCell ==
  /\ pcNb = "import"
  /\ pcNb' = "read_csv"
  /\ UNCHANGED <<csv, nodes, colors>>

\* cell 2: nodes = pd.read_csv(NODES_URL)
ReadCsvCell ==
  /\ pcNb = "read_csv"
  /\ nodes' = read_csv(csv)
  /\ pcNb' = "position"
  /\ UNCHANGED <<csv, colors>>

\* cell 3: the position column, then del x, y, z
PositionCell ==
  /\ pcNb = "position"
  /\ nodes' = DelColumn(DelColumn(DelColumn(
                 SetColumn(nodes, "position", PositionSeries(nodes)),
                 "x"), "y"), "z")
  /\ pcNb' = "color"
  /\ UNCHANGED <<csv, colors>>

\* variant: the group column is not removed
ColorColumnKeepGroup(df, cs) ==
  SetColumn(df, "color", ColorSeries(df, cs))

\* what cell 4 leaves in nodes, given the colours it drew
ColorColumn(df, cs) ==
  DelColumn(SetColumn(df, "color", ColorSeries(df, cs)), "group")

\* cell 4: random colours by group, the color column, then del group
ColorCell ==
  /\ pcNb = "color"
  /\ \E cs \in assign_random_colors(Column(nodes, "group")) :
       /\ colors' = cs
       /\ nodes' = ColorColumn(nodes, cs)
  /\ pcNb' = "view_state"
  /\ UNCHANGED csv

\* ------------------------------------------------------- pydeck bindings
\* pdk.ViewState(...), pdk.View(...), pdk.Layer(...), pdk.Deck(...): each
\* object keeps the arguments it is constructed with
ViewState(kwargs) == [t |-> "ViewState", kwargs |-> kwargs]

View(kwargs) == [t |-> "View", kwargs |-> kwargs]

Layer(type, data, id, use_binary_transport, kwargs) ==
  [t |-> "Layer", type |-> type, data |-> data, id |-> id,
   use_binary_transport |-> use_binary_transport, kwargs |-> kwargs]

Deck(layers, initial_view_state, deckViews, map_provider) ==
  [t |-> "Deck", layers |-> layers, initial_view_state |-> initial_view_state,
   views |-> deckViews, map_provider |-> map_provider]

\* the get_* keyword arguments of a layer
Accessors(layer) == DOMAIN layer.kwargs \cap {"get_position", "get_normal", "get_color"}

\* The requirements of the Usage cell, for a layer displayed through `entry`
\* ("show" is Deck.show inside Jupyter).
BinaryTransportWorks(layer, entry) ==
  /\ entry = "show"
  /\ layer.use_binary_transport = Bool(TRUE)
  /\ layer.data.t = "DataFrame"
  \* no un-used column: every column is named by an accessor
  /\ \A c \in Range(layer.data.columns) :
       \E a \in Accessors(layer) : layer.kwargs[a] = Str(c)
  \* an accessor is the name of one column, never a list of names
  /\ \A a \in Accessors(layer) :
       /\ layer.kwargs[a].t = "string" => layer.kwargs[a].v \in Range(layer.data.columns)
       /\ layer.kwargs[a].t = "list" =>
            \A k \in DOMAIN layer.kwargs[a].v : layer.kwargs[a].v[k].t # "string"

\* the typed arrays of one layer: every column, stacked in row order
BinaryData(layer) ==
  [c \in Range(layer.data.columns) |-> Column(layer.data, c)]

\* layers of a deck whose data goes out in binary / whose data is serialized
BinaryLayers(deck, entry) ==
  {i \in DOMAIN deck.layers : BinaryTransportWorks(deck.layers[i], entry)}

DefaultLayers(deck) ==
  {i \in DOMAIN deck.layers : deck.layers[i].use_binary_transport # Bool(TRUE)}

\* binary transport was asked for but a requirement is not met: the notebook
\* does not say what reaches the frontend
UndocumentedLayers(deck, entry) ==
  DOMAIN deck.layers \ (BinaryLayers(deck, entry) \cup DefaultLayers(deck))

\* to JSON: a DataFrame goes out as the list of its rows
JsonData(data) == IF data.t = "DataFrame" THEN data.rows ELSE data

\* The messages Deck.show may hand to the Jupyter transport.  `fallback`
\* says, for each undocumented layer, whether its data is serialized.
TransportMessage(deck, entry, fallback) ==
  LET bin == BinaryLayers(deck, entry)
      ser == DefaultLayers(deck) \cup {i \in DOMAIN fallback : fallback[i]}
  IN  [type |-> IF bin # {} THEN "json-with-binary" ELSE "json",
       binary |-> [id \in {deck.layers[i].id : i \in bin} |->
                     BinaryData(deck.layers[CHOOSE i \in bin : deck.layers[i].id = id])],
       json |-> [layers |-> [i \in DOMAIN deck.layers |->
                    [type |-> deck.layers[i].type, id |-> deck.layers[i].id,
                     kwargs |-> deck.layers[i].kwargs,
                     data |-> IF i \in ser THEN JsonData(deck.layers[i].data) ELSE None]],
                 initialViewState |-> deck.initial_view_state,
                 views |-> deck.views,
                 mapProvider |-> deck.map_provider]]

show(deck) ==
  {TransportMessage(deck, "show", fallback) :
     fallback \in [UndocumentedLayers(deck, "show") -> BOOLEAN]}

\* ---------------------------------------------- the notebook's last cell
ExampleViewState ==
  ViewState([offset |-> List(<<Num(0), Num(0)>>), latitude |-> None, longitude |-> None,
             bearing |-> None, pitch |-> None, zoom |-> Num(10)])

ExampleViews == <<View([type |-> Str("OrbitView"), controller |-> Bool(TRUE)])>>

\* variant: use_binary_transport is left at its default
ExampleLayerDefaultTransport(data) ==
  Layer("PointCloudLayer", data, "binary-points", None,
        [get_position |-> Str("position"),
         get_normal |-> List(<<Num(10), Num(100), Num(10)>>),
         get_color |-> Str("color"),
         pickable |-> Bool(TRUE),
         auto_highlight |-> Bool(TRUE),
         highlight_color |-> List(<<Num(255), Num(255), Num(0)>>),
         radius |-> Num(50)])

ExampleLayer(data) ==
  Layer("PointCloudLayer", data, "binary-points", Bool(TRUE),
        [get_position |-> Str("position"),
         get_normal |-> List(<<Num(10), Num(100), Num(10)>>),
         get_color |-> Str("color"),
         pickable |-> Bool(TRUE),
         auto_highlight |-> Bool(TRUE),
         highlight_color |-> List(<<Num(255), Num(255), Num(0)>>),
         radius |-> Num(50)])

VARIABLES view_state, views, nodes_layer, shown, outbox, delivered

cellVars == <<view_state, views, nodes_layer, shown, outbox, delivered>>

InitCell ==
  /\ view_state = Undefined
  /\ views = Undefined
  /\ nodes_layer = Undefined
  /\ shown = Undefined
  /\ outbox = <<>>
  /\ delivered = <<>>

\* view_state = pdk.ViewState(...)
ViewStateStmt ==
  /\ pcNb = "view_state"
  /\ view_state' = ExampleViewState
  /\ pcNb' = "views"
  /\ UNCHANGED <<csv, nodes, colors, views, nodes_layer, shown, outbox, delivered>>

\* views = [pdk.View(type="OrbitView", controller=True)]
ViewsStmt ==
  /\ pcNb = "views"
  /\ views' = ExampleViews
  /\ pcNb' = "nodes_layer"
  /\ UNCHANGED <<csv, nodes, colors, view_state, nodes_layer, shown, outbox, delivered>>

\* nodes_layer = pdk.Layer("PointCloudLayer", nodes, ...)
LayerStmt ==
  /\ pcNb = "nodes_layer"
  /\ nodes_layer' = ExampleLayer(nodes)
  /\ pcNb' = "show"
  /\ UNCHANGED <<csv, nodes, colors, view_state, views, shown, outbox, delivered>>

\* pdk.Deck(layers=[nodes_layer], ...).show()
ShowStmt ==
  /\ pcNb = "show"
  /\ LET deck == Deck(<<nodes_layer>>, view_state, views, None)
     IN  /\ shown' = deck
         /\ \E m \in show(deck) : outbox' = Append(outbox, m)
  /\ pcNb' = "done"
  /\ UNCHANGED <<csv, nodes, colors, view_state, views, nodes_layer, delivered>>

\* transport.js: "Delivering transport message" in the frontend
DeliverTransportMessage ==
  /\ outbox # <<>>
  /\ delivered' = Append(delivered, Head(outbox))
  /\ outbox' = Tail(outbox)
  /\ UNCHANGED <<pcNb, csv, nodes, colors, view_state, views, nodes_layer, shown>>

vars == <<jsVars, nbVars, cellVars>>



Init == InitJs /\ InitNb /\ InitCell

Next ==
  \/ (registerLoaders /\ UNCHANGED <<nbVars, cellVars>>)
  \/ (DefineScenegraphLayerDemo /\ UNCHANGED <<nbVars, cellVars>>)
  \/ (DefineSimpleMeshLayerDemo /\ UNCHANGED <<nbVars, cellVars>>)
  \/ (ImportCell /\ UNCHANGED <<jsVars, cellVars>>)
  \/ (ReadCsvCell /\ UNCHANGED <<jsVars, cellVars>>)
  \/ (PositionCell /\ UNCHANGED <<jsVars, cellVars>>)
  \/ (ColorCell /\ UNCHANGED <<jsVars, cellVars>>)
  \/ (ViewStateStmt /\ UNCHANGED jsVars)
  \/ (ViewsStmt /\ UNCHANGED jsVars)
  \/ (LayerStmt /\ UNCHANGED jsVars)
  \/ (ShowStmt /\ UNCHANGED jsVars)
  \/ (DeliverTransportMessage /\ UNCHANGED jsVars)

Spec == Init /\ [][Next]_vars

\* ------------------------------------------------------------ properties
\* the shape the layer-demo harness expects of a descriptor
ExpectedShape(config) ==
  /\ DOMAIN config = {"Layer", "dependencies", "loaders", "getTooltip", "props"}
  /\ config.Layer.t = "class"
  /\ config.dependencies.t = "list"
  /\ \A k \in DOMAIN config.dependencies.v : config.dependencies.v[k].t = "string"
  /\ config.loaders.t = "list"
  /\ \A k \in DOMAIN config.loaders.v : config.loaders.v[k].t = "string"
  /\ config.getTooltip.t = "string"
  /\ config.props.t = "string"

\* C1: every descriptor mesh-layers.js has passed to makeLayerDemo has exactly
\* the fields Layer (a layer class), dependencies (a list of strings), loaders
\* (a list of strings), getTooltip (a string) and props (a string).
C1_DescriptorShape ==
  /\ ScenegraphLayerDemo.t = "component" => ExpectedShape(ScenegraphLayerDemo.config)
  /\ SimpleMeshLayerDemo.t = "component" => ExpectedShape(SimpleMeshLayerDemo.config)

\* both demos are defined, from their own layer classes
C1_Witness ==
  /\ pcJs = "loaded"
  /\ ScenegraphLayerDemo.t = "component"
  /\ SimpleMeshLayerDemo.t = "component"
  /\ ScenegraphLayerDemo.config.Layer = Ref("ScenegraphLayer")
  /\ SimpleMeshLayerDemo.config.Layer = Ref("SimpleMeshLayer")

C4_RowWiseNesting ==
  /\ pcNb \notin {"import", "read_csv", "position"} =>
       /\ Len(nodes.rows) = Len(csv)
       /\ \A i \in DOMAIN csv :
            nodes.rows[i].position = <<csv[i].x, csv[i].y, csv[i].z>>
  /\ Len(NestedTable) = Len(FlatTable)
  /\ \A i \in DOMAIN FlatTable :
       /\ NestedTable[i].position = <<FlatTable[i].x, FlatTable[i].y>>
       /\ NestedTable[i].color = <<FlatTable[i].r, FlatTable[i].g, FlatTable[i].b>>

\* two different rows, each with x # y, have been nested
C4_Witness ==
  /\ pcNb = "color"
  /\ Len(csv) >= 2
  /\ csv[1].x # csv[1].y
  /\ csv[1] # csv[2]
  /\ nodes.rows[1].position = <<0, 1, 1>>
  /\ nodes.rows[2].position = <<1, 0, 1>>

\* C5: the DataFrame the example Layer is constructed with has exactly the
\* columns position and color, read from a file of columns x, y, z, group;
\* every string-valued accessor names one of them and each of them is named
\* by an accessor.
C5_LayerDataRequirements ==
  /\ nodes.t = "DataFrame" /\ pcNb = "position" => nodes.columns = <<"x", "y", "z", "group">>
  /\ nodes_layer.t = "Layer" =>
       /\ nodes_layer.data.t = "DataFrame"
       /\ Len(nodes_layer.data.columns) = 2
       /\ Range(nodes_layer.data.columns) = {"position", "color"}
       /\ \A i \in DOMAIN nodes_layer.data.rows :
            DOMAIN nodes_layer.data.rows[i] = {"position", "color"}
       /\ nodes_layer.kwargs.get_position = Str("position")
       /\ nodes_layer.kwargs.get_color = Str("color")
       /\ \A a \in Accessors(nodes_layer) :
            nodes_layer.kwargs[a].t = "string" =>
              nodes_layer.kwargs[a].v \in Range(nodes_layer.data.columns)
       /\ \A c \in Range(nodes_layer.data.columns) :
            \E a \in Accessors(nodes_layer) : nodes_layer.kwargs[a] = Str(c)

\* the Layer has just been constructed over a table of two rows
C5_Witness ==
  /\ pcNb = "show"
  /\ nodes_layer.t = "Layer"
  /\ nodes_layer.data = nodes
  /\ Len(nodes_layer.data.rows) >= 2
====
